---- MODULE Spec2Model ----
(***************************************************************************)
(* Model of the VergeOS Prometheus exporter's per-scrape collection        *)
(* pipeline: the collectors' Collect handlers, the BaseCollector system    *)
(* name cache, and the samples each cycle hands to the metrics sink.       *)
(***************************************************************************)
EXTENDS Integers, Sequences, FiniteSets, TLC

VARIABLES
    cloudName,    \* remote platform: the current value of the cloud_name setting
    systemName,   \* per collector: BaseCollector.systemName (cached name, "" = unset)
    out,          \* per collector: the samples sent on ch by its latest Collect
    pc,           \* per collector: where its Collect call stands ("idle" = not running)
    curName,      \* per collector: the local variable systemName of the running Collect
    data,         \* per collector: what its latest Collect got from the provider
    cycles,       \* per collector: 1 once a Collect call has started, else 0
    prev,         \* per collector: identity facts of the cycle before the latest
    vec,          \* part_006 collector: contents of its GaugeVec/CounterVec fields
    scrapes,      \* part_006 collector: number of Collect calls so far
    registered,   \* the collectors registered with the prometheus registry
    remote,       \* "any": provider calls range over the modelled domain;
                  \* "fixture": one fixed installation whose calls may fail
    track,        \* which history is recorded: "consecutive", "probe" or "none"
    probe,        \* a dataset picked at start; cycles fetching it are compared
    probeOut,     \* the output of the first cycle that fetched the probe dataset
    mutex,        \* StorageCollector.mutex: the goroutine holding it, 0 = unlocked
    bcMutex,      \* BaseCollector.mutex of that collector: its holder, 0 = unlocked
    threads,      \* per goroutine: the call it is in and where that call stands
    writes        \* number of assignments to BaseCollector.systemName so far

vars == <<cloudName, systemName, pc, curName, out, data, cycles, prev, vec, scrapes,
          registered, mutex, bcMutex, threads, writes, remote, track, probe, probeOut>>

(***************************************************************************)
(* Bounds                                                                  *)
(***************************************************************************)
MaxTiers == 2        \* longest StorageTiers.List response
MaxDetails == 2      \* longest ClusterTiers.List response
MaxClusters == 2     \* longest Clusters.List response
MaxNodes == 2        \* longest Nodes.ListPhysical response
MaxDrives == 3       \* longest machine_drives response
MaxScrapes == 2      \* Collect calls of the part_006 collector
MaxThreads == 2      \* goroutines calling into one collector at the same time

(***************************************************************************)
(* Generic helpers                                                         *)
(***************************************************************************)
Range(s) == {s[i] : i \in DOMAIN s}

SeqsUpTo(S, n) == UNION {[1..k -> S] : k \in 0..n}

RECURSIVE Concat(_)
Concat(ss) == IF ss = <<>> THEN <<>> ELSE Head(ss) \o Concat(Tail(ss))

\* How many times x was sent in the sequence of samples s
Copies(s, x) == Cardinality({i \in DOMAIN s : s[i] = x})

\* Two sample sequences compared as multisets (order-independent)
SameSamples(s, t) == \A x \in Range(s) \cup Range(t) : Copies(s, x) = Copies(t, x)

(***************************************************************************)
(* Provider (Read Collaborator) results                                    *)
(***************************************************************************)
OkRes(v) == [st |-> "ok", val |-> v]
ErrList == [st |-> "err", val |-> <<>>]
ErrStr == [st |-> "err", val |-> ""]
NotCalledList == [st |-> "none", val |-> <<>>]
NotCalledStr == [st |-> "none", val |-> ""]

CloudNames == {"testcloud", "renamed"}

(***************************************************************************)
(* Samples: prometheus.MustNewConstMetric(desc, valueType, value, lvs...)  *)
(***************************************************************************)
NewDesc(fqName, variableLabels) == [fqName |-> fqName, variableLabels |-> variableLabels]

float64(n) == [num |-> n, den |-> 1]

\* float64 division by a positive integer constant, kept as an exact fraction
FloatDiv(v, d) == [num |-> v.num, den |-> v.den * d]

MustNewConstMetric(desc, valueType, value, lvs) ==
    [name |-> desc.fqName, kind |-> valueType, value |-> value,
     labels |-> [i \in 1..Len(desc.variableLabels) |-> <<desc.variableLabels[i], lvs[i]>>]]

HasLabel(s, l) == \E i \in DOMAIN s.labels : s.labels[i][1] = l

LabelValue(s, l) == s.labels[CHOOSE i \in DOMAIN s.labels : s.labels[i][1] = l][2]

\* A conversion that yields 1 for either truth value
boolToOne(b) == float64(1)

boolToFloat64(b) == IF b THEN float64(1) ELSE float64(0)

\* fmt.Sprintf("%d", n) for the small non-negative integers of the model
Sprintf_d(n) == ToString(n)

(***************************************************************************)
(* BaseCollector.GetSystemName: the cached name, or one provider fetch     *)
(***************************************************************************)
\* A lookup that asks the provider on every call
GetSystemNameUncached(cached, res) ==
    IF res.st = "err"
    THEN [name |-> "", err |-> TRUE, cache |-> cached, fetched |-> res]
    ELSE [name |-> res.val, err |-> FALSE, cache |-> res.val, fetched |-> res]

\* A lookup that remembers a failure: after an error the placeholder name is
\* stored and no later call asks the provider
GetSystemNameNoRetry(cached, res) ==
    IF cached # ""
    THEN [name |-> cached, err |-> FALSE, cache |-> cached, fetched |-> NotCalledStr]
    ELSE IF res.st = "err"
         THEN [name |-> "", err |-> TRUE, cache |-> "unknown", fetched |-> res]
         ELSE [name |-> res.val, err |-> FALSE, cache |-> res.val, fetched |-> res]

GetSystemName(cached, res) ==
    IF cached # ""
    THEN [name |-> cached, err |-> FALSE, cache |-> cached, fetched |-> NotCalledStr]
    ELSE IF res.st = "err"
         THEN [name |-> "", err |-> TRUE, cache |-> cached, fetched |-> res]
         ELSE [name |-> res.val, err |-> FALSE, cache |-> res.val, fetched |-> res]

\* What Settings.GetCloudName can return now: the remote name, or an error
NameResults == {OkRes(cloudName), ErrStr}

(***************************************************************************)
(* Storage tiers: provider records                                         *)
(***************************************************************************)
\* vergeos.StorageTier records (StorageTiers.List): the authoritative listing
StorageTierRecs ==
    { [Tier |-> 0, Description |-> "SSD Tier", Capacity |-> 1000, Used |-> 100,
       Allocated |-> 500, DedupeRatio |-> 200],
      [Tier |-> 1, Description |-> "HDD Tier", Capacity |-> 5000, Used |-> 2000,
       Allocated |-> 3000, DedupeRatio |-> 150],
      [Tier |-> 0, Description |-> "Test Tier", Capacity |-> 1000, Used |-> 0,
       Allocated |-> 0, DedupeRatio |-> 100] }

\* A ClusterTier whose Status pointer is nil
NilStatus ==
    [nil |-> TRUE, Status |-> "", Transaction |-> 0, Repairs |-> 0, Working |-> FALSE,
     BadDrives |-> float64(0), Encrypted |-> FALSE, Redundant |-> FALSE,
     LastWalkTimeMs |-> 0, LastFullwalkTimeMs |-> 0, Fullwalk |-> FALSE,
     Progress |-> float64(0), CurSpaceThrottleMs |-> float64(0)]

OnlineStatus ==
    [nil |-> FALSE, Status |-> "online", Transaction |-> 100, Repairs |-> 5, Working |-> TRUE,
     BadDrives |-> float64(0), Encrypted |-> TRUE, Redundant |-> TRUE,
     LastWalkTimeMs |-> 1000, LastFullwalkTimeMs |-> 5000, Fullwalk |-> FALSE,
     Progress |-> float64(0), CurSpaceThrottleMs |-> float64(0)]

RepairingStatus ==
    [nil |-> FALSE, Status |-> "repairing", Transaction |-> 200, Repairs |-> 10, Working |-> TRUE,
     BadDrives |-> float64(1), Encrypted |-> FALSE, Redundant |-> FALSE,
     LastWalkTimeMs |-> 1500, LastFullwalkTimeMs |-> 7500, Fullwalk |-> TRUE,
     Progress |-> float64(50), CurSpaceThrottleMs |-> float64(100)]

\* vergeos.ClusterTier records (ClusterTiers.List): the detail listing
ClusterTierRecs ==
    { [Tier |-> 0, Status |-> OnlineStatus],
      [Tier |-> 0, Status |-> RepairingStatus],
      [Tier |-> 1, Status |-> RepairingStatus],
      [Tier |-> 1, Status |-> NilStatus] }

\* The listings of the installation of TestStorageTierMetrics (part_001)
FixtureTiers ==
    << [Tier |-> 0, Description |-> "SSD Tier", Capacity |-> 1000, Used |-> 100,
        Allocated |-> 500, DedupeRatio |-> 200],
       [Tier |-> 1, Description |-> "HDD Tier", Capacity |-> 5000, Used |-> 2000,
        Allocated |-> 3000, DedupeRatio |-> 150] >>

FixtureDetails ==
    << [Tier |-> 0, Status |-> OnlineStatus], [Tier |-> 1, Status |-> RepairingStatus] >>

StorageTiersResults == {ErrList} \cup {OkRes(l) : l \in SeqsUpTo(StorageTierRecs, MaxTiers)}

ClusterTiersResults == {ErrList} \cup {OkRes(l) : l \in SeqsUpTo(ClusterTierRecs, MaxDetails)}

(***************************************************************************)
(* StorageCollector (storage.go): metric descriptors                       *)
(***************************************************************************)
tierLabels == <<"system_name", "tier", "description">>
tierStatusLabels == <<"system_name", "tier", "status">>

vsanCapacity == NewDesc("vergeos_vsan_tier_capacity", tierLabels)
vsanUsed == NewDesc("vergeos_vsan_tier_used", tierLabels)
vsanAllocated == NewDesc("vergeos_vsan_tier_allocated", tierLabels)
vsanDedupeRatio == NewDesc("vergeos_vsan_tier_dedupe_ratio", tierLabels)
vsanTierTransaction == NewDesc("vergeos_vsan_tier_transaction", tierStatusLabels)
vsanTierRepairs == NewDesc("vergeos_vsan_tier_repairs", tierStatusLabels)
vsanTierState == NewDesc("vergeos_vsan_tier_state", tierStatusLabels)
vsanBadDrives == NewDesc("vergeos_vsan_bad_drives", tierStatusLabels)
vsanEncryptionStatus == NewDesc("vergeos_vsan_encryption_status", tierStatusLabels)
vsanRedundant == NewDesc("vergeos_vsan_redundant", tierStatusLabels)
vsanLastWalkTime == NewDesc("vergeos_vsan_last_walk_time_ms", tierStatusLabels)
vsanLastFullwalkTime == NewDesc("vergeos_vsan_last_fullwalk_time_ms", tierStatusLabels)
vsanFullwalkStatus == NewDesc("vergeos_vsan_fullwalk_status", tierStatusLabels)
vsanFullwalkProgress == NewDesc("vergeos_vsan_fullwalk_progress", tierStatusLabels)
vsanCurSpaceThrottle == NewDesc("vergeos_vsan_cur_space_throttle_ms", tierStatusLabels)

(***************************************************************************)
(* StorageCollector.Collect (storage.go:164-297)                           *)
(***************************************************************************)
\* validTiers: the map built from the storage_tiers listing (lines 186-188)
validTiers(storageTiers) == {storageTiers[i].Tier : i \in DOMAIN storageTiers}

\* Body of the first loop: the four capacity samples of one tier
TierCapacityMetrics(sysName, tier) ==
    LET tierStr == Sprintf_d(tier.Tier) IN
    << MustNewConstMetric(vsanCapacity, "gauge", float64(tier.Capacity),
                          <<sysName, tierStr, tier.Description>>),
       MustNewConstMetric(vsanUsed, "gauge", float64(tier.Used),
                          <<sysName, tierStr, tier.Description>>),
       MustNewConstMetric(vsanAllocated, "gauge", float64(tier.Allocated),
                          <<sysName, tierStr, tier.Description>>),
       MustNewConstMetric(vsanDedupeRatio, "gauge", FloatDiv(float64(tier.DedupeRatio), 100),
                          <<sysName, tierStr, tier.Description>>) >>

\* The eleven status-derived samples of one detail record
TierStatusMetrics(sysName, tier) ==
    LET tierStr == Sprintf_d(tier.Tier)
        status == tier.Status.Status
        lvs == <<sysName, tierStr, status>>
    IN
    << MustNewConstMetric(vsanTierTransaction, "counter", float64(tier.Status.Transaction), lvs),
       MustNewConstMetric(vsanTierRepairs, "gauge", float64(tier.Status.Repairs), lvs),
       MustNewConstMetric(vsanTierState, "gauge", boolToFloat64(tier.Status.Working), lvs),
       MustNewConstMetric(vsanBadDrives, "gauge", tier.Status.BadDrives, lvs),
       MustNewConstMetric(vsanEncryptionStatus, "gauge", boolToFloat64(tier.Status.Encrypted), lvs),
       MustNewConstMetric(vsanRedundant, "gauge", boolToFloat64(tier.Status.Redundant), lvs),
       MustNewConstMetric(vsanLastWalkTime, "gauge", float64(tier.Status.LastWalkTimeMs), lvs),
       MustNewConstMetric(vsanLastFullwalkTime, "gauge", float64(tier.Status.LastFullwalkTimeMs), lvs),
       MustNewConstMetric(vsanFullwalkStatus, "gauge", boolToFloat64(tier.Status.Fullwalk), lvs),
       MustNewConstMetric(vsanFullwalkProgress, "gauge", tier.Status.Progress, lvs),
       MustNewConstMetric(vsanCurSpaceThrottle, "gauge", tier.Status.CurSpaceThrottleMs, lvs) >>

\* The second loop without the validTiers check: only nil statuses are skipped
TierDetailMetricsUnfiltered(sysName, valid, tier) ==
    IF tier.Status.nil THEN <<>> ELSE TierStatusMetrics(sysName, tier)

\* Body of the second loop: phantom tiers and nil statuses are skipped
TierDetailMetrics(sysName, valid, tier) ==
    IF tier.Tier \notin valid THEN <<>>
    ELSE IF tier.Status.nil THEN <<>>
    ELSE TierStatusMetrics(sysName, tier)

\* First loop (lines 187-214): the capacity samples of the whole listing
CapacityLoop(name, storageTiers) ==
    Concat([i \in DOMAIN storageTiers |-> TierCapacityMetrics(name, storageTiers[i])])

\* The second loop leaving at the first record without a status
RECURSIVE DetailLoopUntilNil(_, _, _)
DetailLoopUntilNil(name, valid, clusterTiers) ==
    IF clusterTiers = <<>> THEN <<>>
    ELSE IF Head(clusterTiers).Tier \in valid /\ Head(clusterTiers).Status.nil THEN <<>>
    ELSE TierDetailMetrics(name, valid, Head(clusterTiers))
         \o DetailLoopUntilNil(name, valid, Tail(clusterTiers))

\* Second loop (lines 224-296): the status samples of the whole detail listing
DetailLoop(name, valid, clusterTiers) ==
    Concat([i \in DOMAIN clusterTiers |-> TierDetailMetrics(name, valid, clusterTiers[i])])

\* The tiers the authoritative listing of a cycle returned (none if it failed)
StorageAuth(d) == IF d.tiers.st = "ok" THEN validTiers(d.tiers.val) ELSE {}

\* The valid detail records of a cycle that carry a status
StorageValidDetails(d) ==
    IF d.details.st # "ok" THEN {}
    ELSE {i \in DOMAIN d.details.val :
             /\ d.details.val[i].Tier \in StorageAuth(d)
             /\ ~d.details.val[i].Status.nil}

\* Identity facts of a storage cycle: its tiers and their label values
StorageFacts(d) ==
    [auth |-> {Sprintf_d(t) : t \in StorageAuth(d)},
     labels |-> {<<Sprintf_d(d.tiers.val[i].Tier), "description", d.tiers.val[i].Description>> :
                     i \in DOMAIN d.tiers.val}
                \cup {<<Sprintf_d(d.details.val[i].Tier), "status", d.details.val[i].Status.Status>> :
                     i \in StorageValidDetails(d)}]

(***************************************************************************)
(* NodeCollector (base.go:274-443)                                         *)
(***************************************************************************)
\* vergeos.Cluster records (Clusters.List). A cluster's name is free text of
\* the remote system: cluster 2 may carry the name the collector uses for the
\* label of its total
ClusterRecs ==
    { [Key |-> 1, Name |-> "cluster1"], [Key |-> 2, Name |-> "cluster2"], [Key |-> 2, Name |-> "all"] }

\* vergeos.Node records (Nodes.ListPhysical): the authoritative listing
NodeRecs ==
    { [Name |-> "node1", Cluster |-> 1, IPMIStatus |-> "ok", RAM |-> 64, VMRAM |-> 32],
      [Name |-> "node2", Cluster |-> 1, IPMIStatus |-> "ok", RAM |-> 64, VMRAM |-> 32],
      [Name |-> "node2", Cluster |-> 2, IPMIStatus |-> "offline", RAM |-> 128, VMRAM |-> 0],
      [Name |-> "node1", Cluster |-> 3, IPMIStatus |-> "ok", RAM |-> 64, VMRAM |-> 16] }

\* The listings of the installation of TestNodeCollector_StaleMetrics
FixtureClusters == << [Key |-> 1, Name |-> "cluster1"] >>

FixtureNodes ==
    << [Name |-> "node1", Cluster |-> 1, IPMIStatus |-> "ok", RAM |-> 64, VMRAM |-> 32],
       [Name |-> "node2", Cluster |-> 1, IPMIStatus |-> "ok", RAM |-> 64, VMRAM |-> 32] >>

ClustersResults == {ErrList} \cup {OkRes(l) : l \in SeqsUpTo(ClusterRecs, MaxClusters)}

NodesResults == {ErrList} \cup {OkRes(l) : l \in SeqsUpTo(NodeRecs, MaxNodes)}

nodesTotal == NewDesc("vergeos_nodes_total", <<"system_name", "cluster">>)
nodeIPMIStatus == NewDesc("vergeos_node_ipmi_status", <<"system_name", "cluster", "node_name">>)
nodeRAMTotal == NewDesc("vergeos_node_ram_total", <<"system_name", "cluster", "node_name">>)
nodeRAM == NewDesc("vergeos_node_ram_allocated", <<"system_name", "cluster", "node_name">>)

\* buildClusterMap: cluster key -> name, a later record overwriting an earlier one
buildClusterMap(clusters) ==
    [k \in {clusters[i].Key : i \in DOMAIN clusters} |->
        LET last == CHOOSE i \in DOMAIN clusters :
                        /\ clusters[i].Key = k
                        /\ \A j \in DOMAIN clusters : clusters[j].Key = k => j <= i
        IN clusters[last].Name]

\* Lines 373-376: the cluster label of a node, "cluster_<id>" when unmapped
clusterNameOf(clusterMap, node) ==
    LET mapped == IF node.Cluster \in DOMAIN clusterMap THEN clusterMap[node.Cluster] ELSE "" IN
    IF mapped = "" THEN "cluster_" \o Sprintf_d(node.Cluster) ELSE mapped

\* Lines 381-408: the three samples of one node
NodeMetrics(name, clusterMap, node) ==
    LET clusterName == clusterNameOf(clusterMap, node)
        ipmiStatus == IF node.IPMIStatus = "ok" THEN float64(1) ELSE float64(0)
    IN << MustNewConstMetric(nodeIPMIStatus, "gauge", ipmiStatus, <<name, clusterName, node.Name>>),
          MustNewConstMetric(nodeRAMTotal, "gauge", float64(node.RAM), <<name, clusterName, node.Name>>),
          MustNewConstMetric(nodeRAM, "gauge", float64(node.VMRAM), <<name, clusterName, node.Name>>) >>

\* clusterNodeCounts after the loop: cluster label -> number of nodes
clusterNodeCounts(clusterMap, nodes) ==
    [c \in {clusterNameOf(clusterMap, nodes[i]) : i \in DOMAIN nodes} |->
        Cardinality({i \in DOMAIN nodes : clusterNameOf(clusterMap, nodes[i]) = c})]

\* The keys of a Go map in one of the orders a range loop may visit them;
\* the sink does not depend on the order
RECURSIVE MapOrder(_)
MapOrder(S) == IF S = {} THEN <<>>
               ELSE LET x == CHOOSE x \in S : TRUE IN <<x>> \o MapOrder(S \ {x})

\* Lines 367-427: everything sent once the three fetches have succeeded
NodeSamples(name, clusterMap, nodes) ==
    LET counts == clusterNodeCounts(clusterMap, nodes)
        order == MapOrder(DOMAIN counts)
    IN Concat([i \in DOMAIN nodes |-> NodeMetrics(name, clusterMap, nodes[i])])
       \o << MustNewConstMetric(nodesTotal, "gauge", float64(Len(nodes)), <<name, "all">>) >>
       \o [i \in DOMAIN order |->
              MustNewConstMetric(nodesTotal, "gauge", float64(counts[order[i]]), <<name, order[i]>>)]

\* Identity facts of a node cycle: its nodes and their cluster label
NodeFacts(d) ==
    IF d.nodes.st # "ok" THEN [auth |-> {}, labels |-> {}]
    ELSE [auth |-> {d.nodes.val[i].Name : i \in DOMAIN d.nodes.val},
          labels |-> {<<d.nodes.val[i].Name, "cluster",
                        clusterNameOf(buildClusterMap(d.clusters.val), d.nodes.val[i])>> :
                          i \in DOMAIN d.nodes.val}]

(***************************************************************************)
(* SystemCollector (part_007) and NetworkCollector (network.go)            *)
(***************************************************************************)
NoInfo == [Version |-> "", Hash |-> ""]

\* vergeos.SystemInfo values (System.GetInfo)
SystemInfos == { [Version |-> "26.0.2.1", Hash |-> "abc123"],
                 [Version |-> "26.0.3.0", Hash |-> "def456"] }

FixtureInfo == [Version |-> "26.0.2.1", Hash |-> "abc123"]

InfoResults == {[st |-> "err", val |-> NoInfo]} \cup {OkRes(i) : i \in SystemInfos}

systemVersion == NewDesc("vergeos_system_version", <<"system_name", "version">>)
systemInfo == NewDesc("vergeos_system_info", <<"system_name", "version", "hash">>)
collectorInfo == NewDesc("vergeos_network_collector_info", <<"system_name">>)

\* part_007:68-82: the two samples of a system cycle
SystemSamples(name, info) ==
    << MustNewConstMetric(systemVersion, "gauge", float64(1), <<name, info.Version>>),
       MustNewConstMetric(systemInfo, "gauge", float64(1), <<name, info.Version, info.Hash>>) >>

\* network.go:72-78: the placeholder sample of a network cycle
NetworkSamples(name) ==
    << MustNewConstMetric(collectorInfo, "gauge", float64(1), <<name>>) >>

\* Identity facts of a system cycle: the system and its version labels
SystemFacts(name, d) ==
    IF d.info.st # "ok" THEN [auth |-> {}, labels |-> {}]
    ELSE [auth |-> {name},
          labels |-> {<<name, "version", d.info.val.Version>>, <<name, "hash", d.info.val.Hash>>}]

(***************************************************************************)
(* Drive-state collection: classifier and grouped counting                 *)
(* (collectDriveStateMetrics; exercised by TestDriveStateMonitoring)       *)
(***************************************************************************)
\* The closed set of canonical drive states
DriveStates ==
    <<"online", "offline", "repairing", "initializing", "verifying", "noredundant", "outofspace">>

\* machine_drives records: node_display, statuslist, vsan_tier, vsan_repairing
DriveRecs ==
    { [node_display |-> "node1", statuslist |-> "online", vsan_tier |-> 0, vsan_repairing |-> 0],
      [node_display |-> "node1", statuslist |-> "online", vsan_tier |-> 0, vsan_repairing |-> 1],
      [node_display |-> "node2", statuslist |-> "offline", vsan_tier |-> 1, vsan_repairing |-> 0],
      [node_display |-> "node2", statuslist |-> "unknown_state", vsan_tier |-> 1, vsan_repairing |-> 0],
      [node_display |-> "node2", statuslist |-> "online", vsan_tier |-> -1, vsan_repairing |-> 0],
      [node_display |-> "node2", statuslist |-> "noredundant", vsan_tier |-> 0, vsan_repairing |-> 0] }

DrivesResults == {ErrList} \cup {OkRes(l) : l \in SeqsUpTo(DriveRecs, MaxDrives)}

\* The reported state alone, every override signal ignored
classifyReported(drive) ==
    IF drive.statuslist \in Range(DriveStates) THEN drive.statuslist ELSE "unclassified"

\* A classifier that files an unrecognised reported state under offline
classifyLenient(drive) ==
    IF drive.vsan_repairing > 0 THEN "repairing"
    ELSE IF drive.statuslist \in Range(DriveStates) THEN drive.statuslist
    ELSE "offline"

\* State Classifier: a truthy repair signal forces repairing; an unrecognised
\* reported state is unclassified
classify(drive) ==
    IF drive.vsan_repairing > 0 THEN "repairing"
    ELSE IF drive.statuslist \in Range(DriveStates) THEN drive.statuslist
    ELSE "unclassified"

\* Rows for every node seen combined with every tier seen
driveGroupsCross(drives) ==
    LET tiered == {j \in DOMAIN drives : drives[j].vsan_tier >= 0}
    IN {<<drives[i].node_display, drives[k].vsan_tier>> : i \in tiered, k \in tiered}

\* Rows created only by drives that were classified
driveGroupsClassified(drives) ==
    {<<drives[i].node_display, drives[i].vsan_tier>> :
        i \in {j \in DOMAIN drives : drives[j].vsan_tier >= 0
                                      /\ classify(drives[j]) # "unclassified"}}

\* Rows for every drive, whatever its tier reference
driveGroupsAnyTier(drives) ==
    {<<drives[i].node_display, drives[i].vsan_tier>> : i \in DOMAIN drives}

\* The (node, tier) rows of a cycle: drives without a tier create none
driveGroups(drives) ==
    {<<drives[i].node_display, drives[i].vsan_tier>> :
        i \in {j \in DOMAIN drives : drives[j].vsan_tier >= 0}}

\* Counting over the whole tier, whatever the node
countPerTier(drives, g, s) ==
    Cardinality({i \in DOMAIN drives : drives[i].vsan_tier = g[2] /\ classify(drives[i]) = s})

\* Number of drives of row g whose canonical state is s
countInGroup(drives, g, s) ==
    Cardinality({i \in DOMAIN drives :
                    /\ drives[i].node_display = g[1]
                    /\ drives[i].vsan_tier = g[2]
                    /\ classify(drives[i]) = s})

\* Rows that only hold the states some drive of the row is in
aggregateObserved(drives) ==
    [g \in driveGroups(drives) |->
        [s \in {t \in Range(DriveStates) : countInGroup(drives, g, t) > 0} |->
            countInGroup(drives, g, s)]]

\* Aggregator: every row holds all seven states, 0 for a state without drives
aggregate(drives) ==
    [g \in driveGroups(drives) |->
        [s \in Range(DriveStates) |-> countInGroup(drives, g, s)]]

\* vergeos_vsan_drive_<state>_count{system_name, node_name, tier}
driveStateDesc(s) ==
    NewDesc("vergeos_vsan_drive_" \o s \o "_count", <<"system_name", "node_name", "tier">>)

\* Emitter: one gauge per (row, state) of the aggregation
DriveStateSamples(name, drives) ==
    LET rows == aggregate(drives)
        order == MapOrder(DOMAIN rows)
    IN Concat([i \in DOMAIN order |->
          LET g == order[i]
              states == MapOrder(DOMAIN rows[g])
          IN [k \in DOMAIN states |->
                 MustNewConstMetric(driveStateDesc(states[k]), "gauge", float64(rows[g][states[k]]),
                                    <<name, g[1], Sprintf_d(g[2])>>)]])

(***************************************************************************)
(* StorageCollector with GaugeVec/CounterVec fields (part_006)             *)
(***************************************************************************)
\* The series of a Vec: at most one stored sample per (name, label values)
SameSeries(a, b) == a.name = b.name /\ a.labels = b.labels

\* vec.WithLabelValues(lvs...).Set(value)
VecSet(store, s) == {x \in store : ~SameSeries(x, s)} \cup {s}

\* vec.WithLabelValues(lvs...).Add(value): a new series starts at 0
VecAdd(store, s) ==
    LET old == {x \in store : SameSeries(x, s)}
        before == IF old = {} THEN 0 ELSE (CHOOSE x \in old : TRUE).value.num
    IN (store \ old) \cup {[s EXCEPT !.value = float64(before + s.value.num)]}

\* .Add for a counter sample, .Set for a gauge sample
VecUpdate(store, s) == IF s.kind = "counter" THEN VecAdd(store, s) ELSE VecSet(store, s)

\* The updates of a sequence of samples applied in order
RECURSIVE VecApply(_, _)
VecApply(store, samples) ==
    IF samples = <<>> THEN store ELSE VecApply(VecUpdate(store, Head(samples)), Tail(samples))

\* vec.Collect(ch) of every field: all stored series are sent
VecCollect(store) == MapOrder(store)

(***************************************************************************)
(* ClusterCollector with GaugeVec fields (cluster.go)                      *)
(***************************************************************************)
\* The GaugeVec fields of the collector (lines 51-169)
ClusterCollectorFields ==
    [clusterStatus |-> NewDesc("vergeos_cluster_status", <<"system_name", "cluster">>),
     clusterRAMTotal |-> NewDesc("vergeos_cluster_total_ram", <<"system_name", "cluster">>),
     clusterRAMUsed |-> NewDesc("vergeos_cluster_used_ram", <<"system_name", "cluster">>),
     clusterCoresTotal |-> NewDesc("vergeos_cluster_cores_total", <<"system_name", "cluster">>),
     clusterCoresUsed |-> NewDesc("vergeos_cluster_used_cores", <<"system_name", "cluster">>),
     clusterMachinesTotal |-> NewDesc("vergeos_cluster_running_machines", <<"system_name", "cluster">>),
     clusterHealth |-> NewDesc("vergeos_cluster_health", <<"system_name", "cluster">>),
     clustersTotal |-> NewDesc("vergeos_clusters_total", <<"system_name">>),
     clusterEnabled |-> NewDesc("vergeos_cluster_enabled", <<"system_name", "cluster">>),
     clusterRamPerUnit |-> NewDesc("vergeos_cluster_ram_per_unit", <<"system_name", "cluster">>),
     clusterCoresPerUnit |-> NewDesc("vergeos_cluster_cores_per_unit", <<"system_name", "cluster">>),
     clusterTargetRamPct |-> NewDesc("vergeos_cluster_target_ram_pct", <<"system_name", "cluster">>),
     clusterTotalNodes |-> NewDesc("vergeos_cluster_total_nodes", <<"system_name", "cluster">>),
     clusterOnlineNodes |-> NewDesc("vergeos_cluster_online_nodes", <<"system_name", "cluster">>),
     clusterOnlineRam |-> NewDesc("vergeos_cluster_online_ram", <<"system_name", "cluster">>),
     clusterOnlineCores |-> NewDesc("vergeos_cluster_online_cores", <<"system_name", "cluster">>),
     clusterPhysRamUsed |-> NewDesc("vergeos_cluster_phys_ram_used", <<"system_name", "cluster">>)]

\* The settings response (lines 207-227): the cloud_name setting, or no setting
SettingsResults ==
    {ErrList, OkRes(<<>>), OkRes(<< [Key |-> "cloud_name", Value |-> cloudName] >>)}

\* Lines 229-234: the value of the first cloud_name setting, else the name kept
RECURSIVE settingsName(_, _)
settingsName(current, settings) ==
    IF settings = <<>> THEN current
    ELSE IF Head(settings).Key = "cloud_name" THEN Head(settings).Value
    ELSE settingsName(current, Tail(settings))

\* cluster_stats_history_short/<key> (lines 262-291)
NoStats == [Cluster |-> 0, PhysRamUsed |-> 0]

StatsResults(cluster) ==
    {[st |-> "err", val |-> NoStats], OkRes([Cluster |-> cluster.Key, PhysRamUsed |-> 16])}

\* clusters/<key>?fields=dashboard (ClusterDetailResponse, types.go:174-192):
\* a cluster with its nodes online, or disabled with no node online
NoDetail ==
    [Name |-> "", Enabled |-> FALSE, RamPerUnit |-> 0, CoresPerUnit |-> 0, TargetRamPct |-> 0,
     Status |-> [TotalNodes |-> 0, OnlineNodes |-> 0, OnlineRam |-> 0, OnlineCores |-> 0,
                 RunningMachines |-> 0, TotalRam |-> 0, UsedRam |-> 0, UsedCores |-> 0]]

ClusterDetails(cluster) ==
    { [Name |-> cluster.Name, Enabled |-> TRUE, RamPerUnit |-> 4096, CoresPerUnit |-> 1,
       TargetRamPct |-> 80,
       Status |-> [TotalNodes |-> 2, OnlineNodes |-> 2, OnlineRam |-> 64, OnlineCores |-> 16,
                   RunningMachines |-> 3, TotalRam |-> 64, UsedRam |-> 32, UsedCores |-> 4]],
      [Name |-> cluster.Name, Enabled |-> FALSE, RamPerUnit |-> 2048, CoresPerUnit |-> 2,
       TargetRamPct |-> 90,
       Status |-> [TotalNodes |-> 2, OnlineNodes |-> 0, OnlineRam |-> 0, OnlineCores |-> 0,
                   RunningMachines |-> 0, TotalRam |-> 64, UsedRam |-> 0, UsedCores |-> 0]] }

DetailResults(cluster) ==
    {[st |-> "err", val |-> NoDetail]} \cup {OkRes(d) : d \in ClusterDetails(cluster)}

\* vec.WithLabelValues(lvs...).Set(value), as the series it writes
GaugeSet(desc, value, lvs) == MustNewConstMetric(desc, "gauge", value, lvs)

\* Line 256
ClustersTotalSet(name, response) ==
    << GaugeSet(ClusterCollectorFields.clustersTotal, float64(Len(response)), <<name>>) >>

\* Lines 262-291: the statistics of one cluster; every error is printed and
\* the loop body goes on
ClusterStatsSets(name, cluster, statsRes) ==
    IF statsRes.st = "err" THEN <<>>
    ELSE << GaugeSet(ClusterCollectorFields.clusterPhysRamUsed,
                     float64(statsRes.val.PhysRamUsed), <<name, cluster.Name>>) >>

\* Lines 315-340: the gauges set from the detail response of one cluster
ClusterDetailSets(name, detail) ==
    LET F == ClusterCollectorFields
        lvs == <<name, detail.Name>>
    IN << GaugeSet(F.clusterEnabled, boolToFloat64(detail.Enabled), lvs),
          GaugeSet(F.clusterRamPerUnit, float64(detail.RamPerUnit), lvs),
          GaugeSet(F.clusterCoresPerUnit, float64(detail.CoresPerUnit), lvs),
          GaugeSet(F.clusterTargetRamPct, float64(detail.TargetRamPct), lvs),
          GaugeSet(F.clusterTotalNodes, float64(detail.Status.TotalNodes), lvs),
          GaugeSet(F.clusterOnlineNodes, float64(detail.Status.OnlineNodes), lvs),
          GaugeSet(F.clusterOnlineRam, float64(detail.Status.OnlineRam), lvs),
          GaugeSet(F.clusterOnlineCores, float64(detail.Status.OnlineCores), lvs),
          GaugeSet(F.clusterMachinesTotal, float64(detail.Status.RunningMachines), lvs),
          GaugeSet(F.clusterRAMTotal, float64(detail.Status.TotalRam), lvs),
          GaugeSet(F.clusterRAMUsed, float64(detail.Status.UsedRam), lvs),
          GaugeSet(F.clusterCoresUsed, float64(detail.Status.UsedCores), lvs),
          GaugeSet(F.clusterStatus, boolToFloat64(detail.Status.OnlineNodes > 0), lvs) >>

\* Lines 259-341: the body of the loop for one cluster; a failed detail
\* request continues with the next cluster
ClusterBody(name, cluster, statsRes, detailRes) ==
    ClusterStatsSets(name, cluster, statsRes)
    \o (IF detailRes.st = "err" THEN <<>> ELSE ClusterDetailSets(name, detailRes.val))

\* Identity facts of a cluster cycle: the names of the listed clusters
ClusterFacts(d) ==
    [auth |-> IF d.clusters.st = "ok" THEN {d.clusters.val[i].Name : i \in DOMAIN d.clusters.val}
              ELSE {},
     labels |-> {}]

(***************************************************************************)
(* State                                                                   *)
(***************************************************************************)
\* The collectors of src/ that build their samples with MustNewConstMetric
ConstFamilies == {"storage", "node", "system", "network"}

\* All modelled collectors: those, the drive-state collection, and the
\* StorageCollector of part_006 that keeps GaugeVec/CounterVec fields, and the
\* ClusterCollector of cluster.go
Families == ConstFamilies \cup {"drives", "storage_vec", "cluster"}

NoFacts == [auth |-> {}, labels |-> {}]

NoData ==
    [storage |-> [name |-> NotCalledStr, tiers |-> NotCalledList, details |-> NotCalledList],
     node |-> [name |-> NotCalledStr, clusters |-> NotCalledList, nodes |-> NotCalledList],
     system |-> [name |-> NotCalledStr, info |-> [st |-> "none", val |-> NoInfo]],
     network |-> [name |-> NotCalledStr],
     drives |-> [name |-> NotCalledStr, drives |-> NotCalledList],
     storage_vec |-> [name |-> NotCalledStr, tiers |-> NotCalledList, details |-> NotCalledList],
     cluster |-> [settings |-> NotCalledList, clusters |-> NotCalledList, records |-> NotCalledList]]

NoProbe == [family |-> "none", data |-> NoData.network]

\* The goroutines that may call into the storage collector at the same time
Threads == 1..MaxThreads

\* A goroutine outside any call
NoCall == [pc |-> "idle", via |-> "", name |-> "", err |-> FALSE]

InitProgram ==
    /\ cloudName = "testcloud"
    /\ systemName = [f \in Families |-> IF f = "cluster" THEN "unknown" ELSE ""]
    /\ pc = [f \in Families |-> "idle"]
    /\ curName = [f \in Families |-> ""]
    /\ out = [f \in Families |-> <<>>]
    /\ data = NoData
    /\ cycles = [f \in Families |-> 0]
    /\ prev = [f \in Families |-> NoFacts]
    /\ vec = {}
    /\ scrapes = 0
    /\ probeOut = [set |-> FALSE, samples |-> <<>>, hits |-> 0, other |-> FALSE]
    /\ mutex = 0
    /\ bcMutex = 0
    /\ threads = [t \in Threads |-> NoCall]
    /\ writes = 0

\* Family f has completed at least one cycle and is not inside one
Finished(f) == pc[f] = "idle" /\ cycles[f] > 0

\* A provider call of the latest cycle of family f failed
Failed(f) == \E k \in DOMAIN data[f] : data[f][k].st = "err"

\* Identity facts of the latest cycle of family f
Facts(f) ==
    CASE f = "storage" -> StorageFacts(data[f])
      [] f = "node" -> NodeFacts(data[f])
      [] f = "system" -> SystemFacts(curName[f], data[f])
      [] f = "cluster" -> ClusterFacts(data[f])
      [] OTHER -> NoFacts

\* What a provider call can return: anything of the modelled domain, or, when
\* the remote system is one fixed installation, its data or an error
Provider(all, fixture) ==
    IF remote = "fixture" THEN {r \in all : r.st = "err"} \cup {OkRes(fixture)} ELSE all

\* A collector that stores its series resends those of earlier cycles
RetainedSeries(f) == out[f]

\* The channel of a scrape at the start of Collect: a collector with Desc
\* fields stores no series, so nothing of an earlier cycle is sent again
SentBefore(f) == <<>>

\* An error that fails the whole scrape, for every collector
FailScrape(f) == [g \in Families |-> <<>>]

\* log the error and return: what this Collect already sent stays sent, and no
\* other collector is touched
ReturnOnError(f) == out

\* The dataset of a cycle, the name fetch reduced to whether it failed (a
\* cached name is not fetched again)
Dataset(d) == [d EXCEPT !.name = IF @.st = "err" THEN ErrStr ELSE NotCalledStr]

\* prometheus registry: Collect is called on a registered collector
Begin(f) ==
    /\ f \in registered
    /\ pc[f] = "idle"
    /\ pc' = [pc EXCEPT ![f] = "name"]
    /\ out' = [out EXCEPT ![f] = SentBefore(f)]
    /\ data' = [data EXCEPT ![f] = NoData[f]]
    /\ curName' = [curName EXCEPT ![f] = ""]
    /\ prev' = IF track = "consecutive" THEN [prev EXCEPT ![f] = Facts(f)] ELSE prev
    /\ cycles' = [cycles EXCEPT ![f] = 1]
    /\ UNCHANGED <<cloudName, systemName, vec, scrapes, registered, mutex, bcMutex, threads, writes, remote, track, probe, probeOut>>

\* History bookkeeping when a cycle of family f returns
RecordEnd(f, fetched, samples) ==
    /\ probeOut' =
          IF track # "probe" \/ probe.family # f THEN probeOut
          ELSE IF probe.data # Dataset(fetched) THEN [probeOut EXCEPT !.other = probeOut.set]
          ELSE IF ~probeOut.set
               THEN [set |-> TRUE, samples |-> samples, hits |-> 1, other |-> FALSE]
               ELSE [probeOut EXCEPT !.hits = 2]

\* The remote system is renamed by an administrator
RenameSystem ==
    /\ cloudName' \in CloudNames \ {cloudName}
    /\ UNCHANGED <<systemName, pc, curName, out, data, cycles, prev, vec, scrapes,
                   registered, mutex, bcMutex, threads, writes, remote, track, probe, probeOut>>

\* systemName, err := GetSystemName(ctx); if err != nil { return }
\* On success Collect goes on at position next.
GetName(f, next) ==
    /\ pc[f] = "name"
    /\ \E nameRes \in NameResults :
        LET gsn == GetSystemName(systemName[f], nameRes)
            fetched == [data[f] EXCEPT !.name = gsn.fetched]
        IN /\ systemName' = [systemName EXCEPT ![f] = gsn.cache]
           /\ curName' = [curName EXCEPT ![f] = gsn.name]
           /\ data' = [data EXCEPT ![f] = fetched]
           /\ IF gsn.err
              THEN /\ pc' = [pc EXCEPT ![f] = "idle"]
                   /\ out' = ReturnOnError(f)
                   /\ RecordEnd(f, fetched, out'[f])
              ELSE /\ pc' = [pc EXCEPT ![f] = next]
                   /\ UNCHANGED <<out, probeOut>>
    /\ UNCHANGED <<cloudName, cycles, prev, vec, scrapes, registered, mutex, bcMutex, threads, writes, remote, track, probe>>

(***************************************************************************)
(* StorageCollector.Collect as steps between its provider calls            *)
(***************************************************************************)
\* Lines 164-168
StorageBegin == Begin("storage")

\* Lines 170-175: GetSystemName, return on error
StorageGetName == GetName("storage", "tiers")

\* Lines 177-214: StorageTiers.List, return on error, else the capacity loop
StorageListTiers ==
    /\ pc.storage = "tiers"
    /\ \E tiersRes \in Provider(StorageTiersResults, FixtureTiers) :
        LET fetched == [data.storage EXCEPT !.tiers = tiersRes] IN
        /\ data' = [data EXCEPT !.storage = fetched]
        /\ IF tiersRes.st = "err"
           THEN /\ pc' = [pc EXCEPT !.storage = "idle"]
                /\ out' = ReturnOnError("storage")
                /\ RecordEnd("storage", fetched, out'.storage)
           ELSE /\ pc' = [pc EXCEPT !.storage = "details"]
                /\ out' = [out EXCEPT !.storage = @ \o CapacityLoop(curName.storage, tiersRes.val)]
                /\ UNCHANGED probeOut
    /\ UNCHANGED <<cloudName, systemName, curName, cycles, prev, vec, scrapes,
                   registered, mutex, bcMutex, threads, writes, remote, track, probe>>

\* Lines 216-297: ClusterTiers.List, return on error, else the detail loop
StorageListDetails ==
    /\ pc.storage = "details"
    /\ \E detailsRes \in Provider(ClusterTiersResults, FixtureDetails) :
        LET fetched == [data.storage EXCEPT !.details = detailsRes] IN
        /\ data' = [data EXCEPT !.storage = fetched]
        /\ out' = IF detailsRes.st = "err" THEN ReturnOnError("storage")
                  ELSE [out EXCEPT !.storage =
                           @ \o DetailLoop(curName.storage, validTiers(data.storage.tiers.val),
                                           detailsRes.val)]
        /\ pc' = [pc EXCEPT !.storage = "idle"]
        /\ RecordEnd("storage", fetched, out'.storage)
    /\ UNCHANGED <<cloudName, systemName, curName, cycles, prev, vec, scrapes,
                   registered, mutex, bcMutex, threads, writes, remote, track, probe>>

(***************************************************************************)
(* NodeCollector.Collect (base.go:340-428)                                 *)
(***************************************************************************)
\* Lines 340-344
NodeBegin == Begin("node")

\* Lines 346-351
NodeGetName == GetName("node", "clusters")

\* Lines 353-358: buildClusterMap (Clusters.List), return on error
NodeBuildClusterMap ==
    /\ pc.node = "clusters"
    /\ \E clustersRes \in Provider(ClustersResults, FixtureClusters) :
        LET fetched == [data.node EXCEPT !.clusters = clustersRes] IN
        /\ data' = [data EXCEPT !.node = fetched]
        /\ IF clustersRes.st = "err"
           THEN /\ pc' = [pc EXCEPT !.node = "idle"]
                /\ out' = ReturnOnError("node")
                /\ RecordEnd("node", fetched, out'.node)
           ELSE /\ pc' = [pc EXCEPT !.node = "nodes"]
                /\ UNCHANGED <<out, probeOut>>
    /\ UNCHANGED <<cloudName, systemName, curName, cycles, prev, vec, scrapes,
                   registered, mutex, bcMutex, threads, writes, remote, track, probe>>

\* Lines 360-427: Nodes.ListPhysical, return on error, else emit everything
NodeListPhysical ==
    /\ pc.node = "nodes"
    /\ \E nodesRes \in Provider(NodesResults, FixtureNodes) :
        LET fetched == [data.node EXCEPT !.nodes = nodesRes] IN
        /\ data' = [data EXCEPT !.node = fetched]
        /\ out' = IF nodesRes.st = "err" THEN ReturnOnError("node")
                  ELSE [out EXCEPT !.node =
                           @ \o NodeSamples(curName.node, buildClusterMap(data.node.clusters.val),
                                            nodesRes.val)]
        /\ pc' = [pc EXCEPT !.node = "idle"]
        /\ RecordEnd("node", fetched, out'.node)
    /\ UNCHANGED <<cloudName, systemName, curName, cycles, prev, vec, scrapes,
                   registered, mutex, bcMutex, threads, writes, remote, track, probe>>

(***************************************************************************)
(* SystemCollector.Collect (part_007:48-83)                                *)
(***************************************************************************)
SystemBegin == Begin("system")

SystemGetName == GetName("system", "info")

\* Lines 61-82: System.GetInfo, return on error, else the two samples
SystemGetInfo ==
    /\ pc.system = "info"
    /\ \E infoRes \in Provider(InfoResults, FixtureInfo) :
        LET fetched == [data.system EXCEPT !.info = infoRes] IN
        /\ data' = [data EXCEPT !.system = fetched]
        /\ out' = IF infoRes.st = "err" THEN ReturnOnError("system")
                  ELSE [out EXCEPT !.system = @ \o SystemSamples(curName.system, infoRes.val)]
        /\ pc' = [pc EXCEPT !.system = "idle"]
        /\ RecordEnd("system", fetched, out'.system)
    /\ UNCHANGED <<cloudName, systemName, curName, cycles, prev, vec, scrapes,
                   registered, mutex, bcMutex, threads, writes, remote, track, probe>>

(***************************************************************************)
(* NetworkCollector.Collect (network.go:59-91)                             *)
(***************************************************************************)
NetworkBegin == Begin("network")

NetworkGetName == GetName("network", "emit")

\* Lines 72-78: the placeholder sample
NetworkEmit ==
    /\ pc.network = "emit"
    /\ out' = [out EXCEPT !.network = @ \o NetworkSamples(curName.network)]
    /\ pc' = [pc EXCEPT !.network = "idle"]
    /\ RecordEnd("network", data.network, out'.network)
    /\ UNCHANGED <<cloudName, systemName, curName, data, cycles, prev, vec, scrapes,
                   registered, mutex, bcMutex, threads, writes, remote, track, probe>>

(***************************************************************************)
(* Drive-state collection as steps between its provider calls              *)
(***************************************************************************)
DrivesBegin == Begin("drives")

DrivesGetName == GetName("drives", "drives")

\* The machine_drives listing, return on error, else classify, count and emit
DrivesList ==
    /\ pc.drives = "drives"
    /\ \E drivesRes \in DrivesResults :
        LET fetched == [data.drives EXCEPT !.drives = drivesRes] IN
        /\ data' = [data EXCEPT !.drives = fetched]
        /\ out' = IF drivesRes.st = "err" THEN ReturnOnError("drives")
                  ELSE [out EXCEPT !.drives = @ \o DriveStateSamples(curName.drives, drivesRes.val)]
        /\ pc' = [pc EXCEPT !.drives = "idle"]
        /\ RecordEnd("drives", fetched, out'.drives)
    /\ UNCHANGED <<cloudName, systemName, curName, cycles, prev, vec, scrapes,
                   registered, mutex, bcMutex, threads, writes, remote, track, probe>>

(***************************************************************************)
(* StorageCollector.Collect of part_006 (lines 141-234)                    *)
(***************************************************************************)
\* Lines 141-145: Collect is called; the Vec fields keep what they hold
VecBegin ==
    /\ "storage_vec" \in registered
    /\ pc.storage_vec = "idle"
    /\ scrapes < MaxScrapes
    /\ scrapes' = scrapes + 1
    /\ pc' = [pc EXCEPT !.storage_vec = "name"]
    /\ out' = [out EXCEPT !.storage_vec = <<>>]
    /\ data' = [data EXCEPT !.storage_vec = NoData.storage_vec]
    /\ curName' = [curName EXCEPT !.storage_vec = ""]
    /\ cycles' = [cycles EXCEPT !.storage_vec = 1]
    /\ UNCHANGED <<cloudName, systemName, prev, vec, registered, mutex, bcMutex, threads, writes, remote, track, probe, probeOut>>

\* Lines 147-152
VecGetName == GetName("storage_vec", "tiers")

\* Lines 154-172: StorageTiers.List, return on error, else Set the capacity gauges
VecListTiers ==
    /\ pc.storage_vec = "tiers"
    /\ \E tiersRes \in StorageTiersResults :
        /\ data' = [data EXCEPT !.storage_vec.tiers = tiersRes]
        /\ IF tiersRes.st = "err"
           THEN /\ pc' = [pc EXCEPT !.storage_vec = "idle"]
                /\ UNCHANGED vec
           ELSE /\ pc' = [pc EXCEPT !.storage_vec = "details"]
                /\ vec' = VecApply(vec, CapacityLoop(curName.storage_vec, tiersRes.val))
    /\ UNCHANGED <<cloudName, systemName, curName, out, cycles, prev, scrapes,
                   registered, mutex, bcMutex, threads, writes, remote, track, probe, probeOut>>

\* Lines 174-233: ClusterTiers.List, return on error, else Add/Set per detail
\* record and Collect every Vec
VecListDetails ==
    /\ pc.storage_vec = "details"
    /\ \E detailsRes \in ClusterTiersResults :
        /\ data' = [data EXCEPT !.storage_vec.details = detailsRes]
        /\ pc' = [pc EXCEPT !.storage_vec = "idle"]
        /\ IF detailsRes.st = "err"
           THEN UNCHANGED <<vec, out>>
           ELSE /\ vec' = VecApply(vec, DetailLoop(curName.storage_vec,
                                                   validTiers(data.storage_vec.tiers.val),
                                                   detailsRes.val))
                /\ out' = [out EXCEPT !.storage_vec = VecCollect(vec')]
    /\ UNCHANGED <<cloudName, systemName, curName, cycles, prev, scrapes,
                   registered, mutex, bcMutex, threads, writes, remote, track, probe, probeOut>>

(***************************************************************************)
(* ClusterCollector.Collect (cluster.go:202-360)                           *)
(***************************************************************************)
\* Lines 202-204: Collect is called; the GaugeVec fields keep what they hold
ClusterBegin ==
    /\ "cluster" \in registered
    /\ pc.cluster = "idle"
    /\ scrapes < MaxScrapes
    /\ scrapes' = scrapes + 1
    /\ pc' = [pc EXCEPT !.cluster = "settings"]
    /\ out' = [out EXCEPT !.cluster = <<>>]
    /\ data' = [data EXCEPT !.cluster = NoData.cluster]
    /\ cycles' = [cycles EXCEPT !.cluster = 1]
    /\ prev' = IF track = "consecutive" THEN [prev EXCEPT !.cluster = Facts("cluster")] ELSE prev
    /\ UNCHANGED <<cloudName, systemName, curName, vec, registered, mutex, bcMutex, threads, writes, remote, track,
                   probe, probeOut>>

\* Lines 206-234: the cloud_name setting, return on error
ClusterGetSettings ==
    /\ pc.cluster = "settings"
    /\ \E settingsRes \in SettingsResults :
        /\ data' = [data EXCEPT !.cluster.settings = settingsRes]
        /\ IF settingsRes.st = "err"
           THEN /\ pc' = [pc EXCEPT !.cluster = "idle"]
                /\ UNCHANGED systemName
           ELSE /\ pc' = [pc EXCEPT !.cluster = "clusters"]
                /\ systemName' = [systemName EXCEPT
                                     !.cluster = settingsName(@, settingsRes.val)]
    /\ UNCHANGED <<cloudName, curName, out, cycles, prev, vec, scrapes, registered, mutex, bcMutex, threads, writes, remote,
                   track, probe, probeOut>>

\* Lines 343-359: Collect of every GaugeVec field
ClusterSend == [out EXCEPT !.cluster = VecCollect(vec')]

\* Lines 236-256: the cluster listing, return on error, else clustersTotal;
\* with no cluster listed the loop is empty and the fields are collected
ClusterListClusters ==
    /\ pc.cluster = "clusters"
    /\ \E clustersRes \in ClustersResults :
        /\ data' = [data EXCEPT !.cluster.clusters = clustersRes,
                                !.cluster.records = IF clustersRes.st = "err" THEN @ ELSE OkRes(<<>>)]
        /\ IF clustersRes.st = "err"
           THEN /\ pc' = [pc EXCEPT !.cluster = "idle"]
                /\ UNCHANGED <<vec, out>>
           ELSE /\ vec' = VecApply(vec, ClustersTotalSet(systemName.cluster, clustersRes.val))
                /\ IF clustersRes.val = <<>>
                   THEN /\ pc' = [pc EXCEPT !.cluster = "idle"]
                        /\ out' = ClusterSend
                   ELSE /\ pc' = [pc EXCEPT !.cluster = "loop"]
                        /\ UNCHANGED out
    /\ UNCHANGED <<cloudName, systemName, curName, cycles, prev, scrapes, registered, mutex, bcMutex, threads, writes, remote,
                   track, probe, probeOut>>

\* Lines 258-360: one iteration of the loop, the statistics and the detail
\* request of the next cluster; after the last cluster the fields are collected
ClusterLoop ==
    /\ pc.cluster = "loop"
    /\ LET response == data.cluster.clusters.val
           i == Len(data.cluster.records.val) + 1
           cluster == response[i]
       IN \E statsRes \in StatsResults(cluster), detailRes \in DetailResults(cluster) :
            /\ data' = [data EXCEPT !.cluster.records.val =
                                       Append(@, [stats |-> statsRes, detail |-> detailRes])]
            /\ vec' = VecApply(vec, ClusterBody(systemName.cluster, cluster, statsRes, detailRes))
            /\ IF i = Len(response)
               THEN /\ pc' = [pc EXCEPT !.cluster = "idle"]
                    /\ out' = ClusterSend
               ELSE UNCHANGED <<pc, out>>
    /\ UNCHANGED <<cloudName, systemName, curName, cycles, prev, scrapes, registered, mutex, bcMutex, threads, writes, remote,
                   track, probe, probeOut>>

(***************************************************************************)
(* Specifications                                                          *)
(***************************************************************************)
\* The steps of the collectors of ConstFamilies
ConstCollectors ==
    \/ StorageBegin \/ StorageGetName \/ StorageListTiers \/ StorageListDetails
    \/ NodeBegin \/ NodeGetName \/ NodeBuildClusterMap \/ NodeListPhysical
    \/ SystemBegin \/ SystemGetName \/ SystemGetInfo
    \/ NetworkBegin \/ NetworkGetName \/ NetworkEmit

Collectors == ConstCollectors \/ DrivesBegin \/ DrivesGetName \/ DrivesList

\* One collector registered in a fresh registry, as the tests of the
\* repository do, against an installation that keeps its name; the facts of
\* consecutive cycles are recorded
Init ==
    /\ InitProgram
    /\ \E f \in ConstFamilies \cup {"drives"} : registered = {f}
    /\ remote = "any"
    /\ track = "consecutive"
    /\ probe = NoProbe

Next == Collectors

Spec == Init /\ [][Next]_vars

\* Probe datasets: complete, phantom, failed at each call, empty
Probes ==
    { [family |-> "storage", data |-> d] : d \in
        { [name |-> NotCalledStr, tiers |-> OkRes(FixtureTiers), details |-> OkRes(FixtureDetails)],
          [name |-> NotCalledStr, tiers |-> OkRes(<<FixtureTiers[1]>>),
           details |-> OkRes(<<FixtureDetails[2], FixtureDetails[1]>>)],
          [name |-> NotCalledStr, tiers |-> OkRes(FixtureTiers), details |-> ErrList],
          [name |-> NotCalledStr, tiers |-> ErrList, details |-> NotCalledList],
          [name |-> ErrStr, tiers |-> NotCalledList, details |-> NotCalledList] } }
    \cup
    { [family |-> "node", data |-> d] : d \in
        { [name |-> NotCalledStr, clusters |-> OkRes(FixtureClusters), nodes |-> OkRes(FixtureNodes)],
          [name |-> NotCalledStr, clusters |-> OkRes(<<>>), nodes |-> OkRes(<<FixtureNodes[2]>>)],
          [name |-> NotCalledStr, clusters |-> OkRes(FixtureClusters), nodes |-> ErrList] } }
    \cup
    { [family |-> "system", data |-> [name |-> NotCalledStr, info |-> OkRes(FixtureInfo)]],
      [family |-> "network", data |-> [name |-> NotCalledStr]] }

\* One collector in a fresh registry against an installation that may be
\* renamed, with a probe dataset picked at the start: the output of the first
\* cycle that fetches it is kept for comparison
InitProbe ==
    /\ InitProgram
    /\ probe \in Probes
    /\ registered = {probe.family}
    /\ remote = "any"
    /\ track = "probe"

NextProbe == ConstCollectors \/ RenameSystem

SpecProbe == InitProbe /\ [][NextProbe]_vars

\* main (part_010:59-73): the collectors registered together, scraping one
\* installation whose calls may fail
InitMain ==
    /\ InitProgram
    /\ registered = ConstFamilies
    /\ remote = "fixture"
    /\ track = "none"
    /\ probe = NoProbe

SpecMain == InitMain /\ [][ConstCollectors]_vars

\* The part_006 collector alone in a registry
InitVec ==
    /\ InitProgram
    /\ registered = {"storage_vec"}
    /\ remote = "any"
    /\ track = "none"
    /\ probe = NoProbe

NextVec == VecBegin \/ VecGetName \/ VecListTiers \/ VecListDetails \/ RenameSystem

SpecVec == InitVec /\ [][NextVec]_vars

\* The ClusterCollector alone in a registry; the listing of the previous
\* scrape is recorded
InitCluster ==
    /\ InitProgram
    /\ registered = {"cluster"}
    /\ remote = "any"
    /\ track = "consecutive"
    /\ probe = NoProbe

NextCluster == ClusterBegin \/ ClusterGetSettings \/ ClusterListClusters \/ ClusterLoop

SpecCluster == InitCluster /\ [][NextCluster]_vars

\* promhttp.Handler (part_010:74): one scrape of the registry calls Collect on
\* every registered collector, each with a fresh channel, and the collectors
\* run side by side; the next scrape starts when all of them have returned
Gather ==
    /\ scrapes < MaxScrapes
    /\ \A f \in registered : pc[f] = "idle"
    /\ scrapes' = scrapes + 1
    /\ pc' = [f \in Families |-> IF f \in registered THEN "name" ELSE pc[f]]
    /\ out' = [f \in Families |-> IF f \in registered THEN SentBefore(f) ELSE out[f]]
    /\ data' = [f \in Families |-> IF f \in registered THEN NoData[f] ELSE data[f]]
    /\ curName' = [f \in Families |-> IF f \in registered THEN "" ELSE curName[f]]
    /\ cycles' = [f \in Families |-> IF f \in registered THEN 1 ELSE cycles[f]]
    /\ UNCHANGED <<cloudName, systemName, prev, vec, registered, mutex, bcMutex, threads, writes, remote, track, probe, probeOut>>

\* The storage and the network collector of main, each with its own
\* BaseCollector (storage.go:49-54, network.go:41-51), scraped together from
\* one installation that may be renamed and whose calls may fail
InitScrape ==
    /\ InitProgram
    /\ registered = {"storage", "network"}
    /\ remote = "fixture"
    /\ track = "none"
    /\ probe = NoProbe

NextScrape ==
    \/ Gather
    \/ StorageGetName \/ StorageListTiers \/ StorageListDetails
    \/ NetworkGetName \/ NetworkEmit
    \/ RenameSystem

SpecScrape == InitScrape /\ [][NextScrape]_vars

(***************************************************************************)
(* Concurrent calls into one StorageCollector: the collector mutex         *)
(* (storage.go:165-166) and the BaseCollector mutex (base.go:37-38)        *)
(***************************************************************************)
\* A Lock that does not wait for the holder
LockFree(holder, t) == [ok |-> TRUE, holder |-> t]

\* sync.Mutex.Lock: returns only when the mutex is unlocked, then holds it
MutexLock(holder, t) == [ok |-> holder = 0, holder |-> t]

\* A return path that leaves the mutex locked
KeepOnReturn(holder, t) == holder

\* defer mutex.Unlock(): runs on every return of the function that locked
ReleaseOnReturn(holder, t) == IF holder = t THEN 0 ELSE holder

\* The other variables of the program, untouched by the steps below
Elsewhere == <<cloudName, pc, curName, data, cycles, prev, vec, scrapes,
               registered, remote, track, probe, probeOut>>

\* The registry calls Collect from goroutine t
CallCollect(t) ==
    /\ threads[t].pc = "idle"
    /\ threads' = [threads EXCEPT ![t] = [NoCall EXCEPT !.pc = "lock", !.via = "Collect"]]
    /\ UNCHANGED <<systemName, out, mutex, bcMutex, writes, Elsewhere>>

\* Goroutine t calls the exported GetSystemName of the collector directly
CallGetSystemName(t) ==
    /\ threads[t].pc = "idle"
    /\ threads' = [threads EXCEPT ![t] = [NoCall EXCEPT !.pc = "name", !.via = "GetSystemName"]]
    /\ UNCHANGED <<systemName, out, mutex, bcMutex, writes, Elsewhere>>

\* storage.go:165: sc.mutex.Lock()
CollectLock(t) ==
    /\ threads[t].pc = "lock"
    /\ MutexLock(mutex, t).ok
    /\ mutex' = MutexLock(mutex, t).holder
    /\ threads' = [threads EXCEPT ![t].pc = "name"]
    /\ UNCHANGED <<systemName, out, bcMutex, writes, Elsewhere>>

\* base.go:37-43: bc.mutex.Lock(), then the read of the cache; a stored name
\* is returned, an unset one goes on to the provider
GetSystemNameLock(t) ==
    /\ threads[t].pc = "name"
    /\ MutexLock(bcMutex, t).ok
    /\ bcMutex' = MutexLock(bcMutex, t).holder
    /\ threads' = [threads EXCEPT ![t] =
          IF systemName.storage # ""
          THEN [@ EXCEPT !.pc = "bcret", !.name = systemName.storage]
          ELSE [@ EXCEPT !.pc = "fetch"]]
    /\ UNCHANGED <<systemName, out, mutex, writes, Elsewhere>>

\* base.go:46-56: Settings.GetCloudName returns; on success the cache is written
GetSystemNameFetch(t) ==
    /\ threads[t].pc = "fetch"
    /\ \E nameRes \in NameResults :
        LET gsn == GetSystemName("", nameRes) IN
        /\ systemName' = [systemName EXCEPT !.storage = IF gsn.err THEN @ ELSE gsn.cache]
        /\ writes' = IF gsn.err THEN writes ELSE writes + 1
        /\ threads' = [threads EXCEPT ![t] = [@ EXCEPT !.pc = "bcret", !.name = gsn.name,
                                                       !.err = gsn.err]]
    /\ UNCHANGED <<out, mutex, bcMutex, Elsewhere>>

\* base.go:38: the deferred bc.mutex.Unlock(); a direct call is over, Collect
\* returns on an error (storage.go:172-175) or goes on to its listings
GetSystemNameReturn(t) ==
    /\ threads[t].pc = "bcret"
    /\ bcMutex' = ReleaseOnReturn(bcMutex, t)
    /\ threads' = [threads EXCEPT ![t] =
          IF @.via = "GetSystemName" THEN NoCall
          ELSE IF @.err THEN [@ EXCEPT !.pc = "unlock"]
          ELSE [@ EXCEPT !.pc = "body"]]
    /\ UNCHANGED <<systemName, out, mutex, writes, Elsewhere>>

\* storage.go:177-297: the two listings and the samples sent for them
CollectBody(t) ==
    /\ threads[t].pc = "body"
    /\ \E tiersRes \in {ErrList, OkRes(FixtureTiers)}, detailsRes \in {ErrList, OkRes(FixtureDetails)} :
        out' = [out EXCEPT !.storage =
                   IF tiersRes.st = "err" THEN <<>>
                   ELSE CapacityLoop(threads[t].name, tiersRes.val)
                        \o (IF detailsRes.st = "err" THEN <<>>
                            ELSE DetailLoop(threads[t].name, validTiers(tiersRes.val),
                                            detailsRes.val))]
    /\ threads' = [threads EXCEPT ![t].pc = "unlock"]
    /\ UNCHANGED <<systemName, mutex, bcMutex, writes, Elsewhere>>

\* storage.go:166: the deferred sc.mutex.Unlock() as Collect returns
CollectReturn(t) ==
    /\ threads[t].pc = "unlock"
    /\ mutex' = ReleaseOnReturn(mutex, t)
    /\ threads' = [threads EXCEPT ![t] = NoCall]
    /\ UNCHANGED <<systemName, out, bcMutex, writes, Elsewhere>>

\* What goroutine t does once it is inside a call
Proceed(t) ==
    \/ CollectLock(t) \/ GetSystemNameLock(t) \/ GetSystemNameFetch(t)
    \/ GetSystemNameReturn(t) \/ CollectBody(t) \/ CollectReturn(t)

InitConc ==
    /\ InitProgram
    /\ registered = {"storage"}
    /\ remote = "fixture"
    /\ track = "none"
    /\ probe = NoProbe

NextConc ==
    \/ \E t \in Threads : CallCollect(t) \/ CallGetSystemName(t) \/ Proceed(t)
    \/ RenameSystem

SpecConc == InitConc /\ [][NextConc]_vars

\* Every provider call returns and the sink keeps receiving, so a goroutine
\* that can go on does; sync.Mutex hands a lock that is released again and
\* again to a goroutine that keeps waiting for it (starvation mode)
Fairness ==
    \A t \in Threads :
        /\ SF_vars(CollectLock(t))
        /\ SF_vars(GetSystemNameLock(t))
        /\ WF_vars(GetSystemNameFetch(t) \/ GetSystemNameReturn(t)
                   \/ CollectBody(t) \/ CollectReturn(t))

SpecConcFair == SpecConc /\ Fairness

(***************************************************************************)
(* Properties                                                              *)
(***************************************************************************)
\* The label that carries the identity of an entity of family f
IdLabel(f) ==
    CASE f = "storage" -> "tier"
      [] f = "node" -> "node_name"
      [] OTHER -> "system_name"

\* The samples of the latest cycle of f that bear identity k
Bearing(f, k) ==
    {i \in DOMAIN out[f] : HasLabel(out[f][i], IdLabel(f)) /\ LabelValue(out[f][i], IdLabel(f)) = k}

C2_NoOldLabelValue ==
    \A f \in ConstFamilies :
        Finished(f) =>
            \A old \in prev[f].labels \ Facts(f).labels :
                old[1] \in Facts(f).auth =>
                    \A i \in Bearing(f, old[1]) :
                        ~(HasLabel(out[f][i], old[2]) /\ LabelValue(out[f][i], old[2]) = old[3])

\* A tier's status changed between two cycles and the later cycle emitted
\* status samples for that tier
C2_Witness ==
    /\ Finished("storage")
    /\ \E old \in prev.storage.labels \ Facts("storage").labels :
           /\ old[2] = "status"
           /\ \E new \in Facts("storage").labels : new[1] = old[1] /\ new[2] = "status"
           /\ \E i \in Bearing("storage", old[1]) : HasLabel(out.storage[i], "status")

\* Number of samples of metric m in the latest output of the storage family
CountMetric(m) == Cardinality({i \in DOMAIN out.storage : out.storage[i].name = m})

\* C3: every per-tier sample carries a tier of this cycle's authoritative set,
\* and only valid detail records with a status produce status-derived samples.
C3_PhantomFiltering ==
    LET auth == Facts("storage").auth
        valid == Cardinality(StorageValidDetails(data.storage))
    IN /\ \A i \in DOMAIN out.storage : LabelValue(out.storage[i], "tier") \in auth
       /\ Finished("storage") =>
              \A d \in {vsanTierTransaction, vsanTierRepairs, vsanTierState, vsanBadDrives,
                        vsanEncryptionStatus, vsanRedundant, vsanLastWalkTime,
                        vsanLastFullwalkTime, vsanFullwalkStatus, vsanFullwalkProgress,
                        vsanCurSpaceThrottle} :
                  CountMetric(d.fqName) = valid

\* A cycle whose detail listing held a phantom record next to a valid one
C3_Witness ==
    /\ Finished("storage")
    /\ data.storage.details.st = "ok"
    /\ \E i \in DOMAIN data.storage.details.val :
           /\ data.storage.details.val[i].Tier \notin StorageAuth(data.storage)
           /\ ~data.storage.details.val[i].Status.nil
    /\ StorageValidDetails(data.storage) # {}

\* C4: a cycle in which a provider call failed emitted no sample for its family.
C4_FailedCycleEmitsNothing ==
    \A f \in ConstFamilies : (Finished(f) /\ Failed(f)) => out[f] = <<>>

\* What a cycle of family g that fetched the dataset data[g] sends
Emitted(g) ==
    CASE g = "storage" ->
            CapacityLoop(curName[g], data[g].tiers.val)
            \o DetailLoop(curName[g], validTiers(data[g].tiers.val), data[g].details.val)
      [] g = "node" ->
            NodeSamples(curName[g], buildClusterMap(data[g].clusters.val), data[g].nodes.val)
      [] g = "system" -> SystemSamples(curName[g], data[g].info.val)
      [] g = "network" -> NetworkSamples(curName[g])

Drives == data.drives.drives.val

DriveRows == {<<Drives[i].node_display, Drives[i].vsan_tier>> :
                 i \in {j \in DOMAIN Drives : Drives[j].vsan_tier >= 0}}

InRow(i, g) == Drives[i].node_display = g[1] /\ Drives[i].vsan_tier = g[2]

\* The values sent for state s of row g
CountValues(g, s) ==
    {out.drives[i].value : i \in {j \in DOMAIN out.drives :
        /\ out.drives[j].name = "vergeos_vsan_drive_" \o s \o "_count"
        /\ LabelValue(out.drives[j], "node_name") = g[1]
        /\ LabelValue(out.drives[j], "tier") = ToString(g[2])}}

\* Drive i is in state s once the repair override is applied
CanonicalIs(i, s) ==
    IF Drives[i].vsan_repairing > 0 THEN s = "repairing" ELSE Drives[i].statuslist = s

DrivesDone == Finished("drives") /\ data.drives.drives.st = "ok"

\* C6: a drive reported online with vsan_repairing > 0 is counted in the
\* repairing bucket of its (node, tier) row and not in the online bucket.
C6_RepairOverridesOnline ==
    DrivesDone =>
        \A g \in DriveRows :
            LET overridden == {i \in DOMAIN Drives : InRow(i, g) /\ Drives[i].statuslist = "online"
                                                     /\ Drives[i].vsan_repairing > 0}
                plain == {i \in DOMAIN Drives : InRow(i, g) /\ Drives[i].statuslist = "online"
                                                /\ Drives[i].vsan_repairing <= 0}
            IN /\ CountValues(g, "online") = {float64(Cardinality(plain))}
               /\ CountValues(g, "repairing") # {}
               /\ \A v \in CountValues(g, "repairing") : v.num >= Cardinality(overridden)

\* A cycle with a drive reported online under repair next to a plain online one
C6_Witness ==
    /\ DrivesDone
    /\ \E i, j \in DOMAIN Drives :
           /\ Drives[i].statuslist = "online" /\ Drives[i].vsan_repairing > 0
           /\ Drives[j].statuslist = "online" /\ Drives[j].vsan_repairing = 0
           /\ Drives[i].vsan_tier = Drives[j].vsan_tier
           /\ Drives[i].node_display = Drives[j].node_display
    /\ out.drives # <<>>

\* The samples sent for state s of row g
CountSamples(g, s) ==
    {j \in DOMAIN out.drives :
        /\ out.drives[j].name = "vergeos_vsan_drive_" \o s \o "_count"
        /\ LabelValue(out.drives[j], "node_name") = g[1]
        /\ LabelValue(out.drives[j], "tier") = ToString(g[2])}

\* C7: every (node, tier) row with at least one drive has one count for each
\* of the seven states, and the count of a state without drives is 0.
C7_AllStatesPresent ==
    DrivesDone =>
        \A g \in DriveRows : \A s \in Range(DriveStates) :
            /\ Cardinality(CountSamples(g, s)) = 1
            /\ (~\E i \in DOMAIN Drives : InRow(i, g) /\ CanonicalIs(i, s)) =>
                   \A j \in CountSamples(g, s) : out.drives[j].value = float64(0)

\* A cycle with a row whose only drive reports an unrecognised state
C7_Witness ==
    /\ DrivesDone
    /\ \E g \in DriveRows :
           \A i \in DOMAIN Drives : InRow(i, g) => Drives[i].statuslist \notin Range(DriveStates)
    /\ out.drives # <<>>

\* C8: the count sent for a state of a row is the number of the row's drives
\* whose canonical state is that state.
C8_CountsMatchDrives ==
    DrivesDone =>
        \A g \in DriveRows : \A s \in Range(DriveStates) :
            \A j \in CountSamples(g, s) :
                out.drives[j].value =
                    float64(Cardinality({i \in DOMAIN Drives : InRow(i, g) /\ CanonicalIs(i, s)}))

\* A cycle with two nodes on one tier and a count of two
C8_Witness ==
    /\ DrivesDone
    /\ \E g, h \in DriveRows : g[1] # h[1] /\ g[2] = h[2]
    /\ \E j \in DOMAIN out.drives : out.drives[j].value = float64(2)

\* C9: a completed cycle that fetched the probe dataset sends the same samples
\* as the first cycle that fetched it, whatever ran before or in between.
C9_SameDatasetSameSamples ==
    \A f \in ConstFamilies :
        (Finished(f) /\ probe.family = f /\ probeOut.set /\ Dataset(data[f]) = probe.data) =>
            SameSamples(out[f], probeOut.samples)

\* The probe dataset was fetched again after a cycle with another dataset, and
\* samples were sent
C9_Witness ==
    /\ probeOut.hits = 2
    /\ probeOut.other
    /\ Finished(probe.family)
    /\ Dataset(data[probe.family]) = probe.data
    /\ out[probe.family] # <<>>

\* C10: in a completed cycle, the counter sample of a tier and status for which
\* the provider returned one detail record carries that record's cumulative
\* transaction count, however many scrapes ran before.
C10_CounterIsProviderValue ==
    \A f \in {"storage", "storage_vec"} :
        (Finished(f) /\ ~Failed(f)) =>
            \A j \in StorageValidDetails(data[f]) :
                LET rec == data[f].details.val[j]
                    same == {k \in StorageValidDetails(data[f]) :
                                /\ data[f].details.val[k].Tier = rec.Tier
                                /\ data[f].details.val[k].Status.Status = rec.Status.Status}
                    sent == {i \in DOMAIN out[f] :
                                /\ out[f][i].kind = "counter"
                                /\ LabelValue(out[f][i], "tier") = Sprintf_d(rec.Tier)
                                /\ LabelValue(out[f][i], "status") = rec.Status.Status}
                IN same = {j} =>
                       /\ sent # {}
                       /\ \A i \in sent : out[f][i].value = float64(rec.Status.Transaction)

\* C11: once the tier listing of a storage cycle has returned empty, the cycle
\* holds no sample at all, whatever the detail listing returns.
C11_EmptyAuthorityEmitsNothing ==
    (cycles.storage > 0 /\ data.storage.tiers = OkRes(<<>>)) => out.storage = <<>>

\* A completed cycle with no tier and a detail listing of records with a status
C11_Witness ==
    /\ Finished("storage")
    /\ data.storage.tiers = OkRes(<<>>)
    /\ data.storage.details.st = "ok"
    /\ \E i \in DOMAIN data.storage.details.val : ~data.storage.details.val[i].Status.nil

\* The status-derived metrics of the storage family
StatusDescs ==
    {vsanTierTransaction, vsanTierRepairs, vsanTierState, vsanBadDrives, vsanEncryptionStatus,
     vsanRedundant, vsanLastWalkTime, vsanLastFullwalkTime, vsanFullwalkStatus,
     vsanFullwalkProgress, vsanCurSpaceThrottle}

\* The detail records of the latest storage cycle
Details == data.storage.details.val

\* Record i refers to a tier of the authoritative listing of the cycle
ValidRecord(i) ==
    \E k \in DOMAIN data.storage.tiers.val : data.storage.tiers.val[k].Tier = Details[i].Tier

\* The samples of metric d sent for tier t with status label st
StatusSamples(d, t, st) ==
    {i \in DOMAIN out.storage :
        /\ out.storage[i].name = d.fqName
        /\ LabelValue(out.storage[i], "tier") = ToString(t)
        /\ LabelValue(out.storage[i], "status") = st}

\* C12: a valid detail record without a status yields no status-derived
\* sample, and every valid record with a status, before or after it, yields
\* its own: per metric, tier and status there are as many samples as valid
\* records with that tier and status.
C12_NilStatusSkipsOnlyItself ==
    (Finished("storage") /\ data.storage.details.st = "ok") =>
        \A t \in {0, 1} : \A st \in {"", "online", "repairing"} :
            LET records == Cardinality({i \in DOMAIN Details :
                                          /\ ValidRecord(i)
                                          /\ ~Details[i].Status.nil
                                          /\ Details[i].Tier = t
                                          /\ Details[i].Status.Status = st})
                lvs == << <<"system_name", curName.storage>>, <<"tier", ToString(t)>>,
                          <<"status", st>> >>
                labelled == {k \in DOMAIN out.storage : out.storage[k].labels = lvs}
            IN \A d \in StatusDescs :
                   Cardinality({k \in labelled : out.storage[k].name = d.fqName}) = records

\* A valid record without a status came before a valid record with one
C12_Witness ==
    /\ Finished("storage")
    /\ data.storage.details.st = "ok"
    /\ \E i, j \in DOMAIN Details :
           /\ i < j
           /\ ValidRecord(i) /\ Details[i].Status.nil
           /\ ValidRecord(j) /\ ~Details[j].Status.nil
    /\ out.storage # <<>>

\* C13: while the detail listing of a storage cycle has not returned, the
\* cycle has sent no sample.
C13_NoSampleBeforeBothListings ==
    (pc.storage = "details") => out.storage = <<>>

\* A request of the latest cluster cycle failed: the settings, the listing, or
\* the statistics or detail request of a listed cluster
ClusterRequestFailed ==
    \/ data.cluster.settings.st = "err"
    \/ data.cluster.clusters.st = "err"
    \/ \E i \in DOMAIN data.cluster.records.val :
          \/ data.cluster.records.val[i].stats.st = "err"
          \/ data.cluster.records.val[i].detail.st = "err"

\* C14: a cluster cycle in which any response could not be fetched or decoded,
\* a per-cluster statistics or detail response included, emits no sample.
C14_RecordFailureEmitsNothing ==
    (Finished("cluster") /\ ClusterRequestFailed) => out.cluster = <<>>

\* Drive i reports a state outside the seven and is not under repair
Unrecognised(i) ==
    Drives[i].statuslist \notin Range(DriveStates) /\ Drives[i].vsan_repairing <= 0

\* The drives other than i that are in row g with canonical state s
OthersIn(i, g, s) == {j \in DOMAIN Drives \ {i} : InRow(j, g) /\ CanonicalIs(j, s)}

\* C15: a drive with an unrecognised state and no repair override adds to no
\* count of any row: in the completed cycle every count of every row is the
\* number of the other drives of that row in that state.
C15_UnrecognisedCountsNowhere ==
    DrivesDone =>
        \A i \in DOMAIN Drives : Unrecognised(i) =>
            \A g \in DriveRows : \A s \in Range(DriveStates) :
                CountValues(g, s) = {float64(Cardinality(OthersIn(i, g, s)))}

\* A completed cycle with an unrecognised drive and a recognised drive in the
\* same row, the recognised one counted
C15_Witness ==
    /\ DrivesDone
    /\ \E i, j \in DOMAIN Drives :
           /\ Unrecognised(i) /\ ~Unrecognised(j)
           /\ Drives[i].vsan_tier >= 0
           /\ InRow(j, <<Drives[i].node_display, Drives[i].vsan_tier>>)
    /\ \E k \in DOMAIN out.drives : out.drives[k].value = float64(1)

C17_UnrecognisedRowIsZeros ==
    DrivesDone =>
        \A g \in DriveRows :
            (\A i \in DOMAIN Drives : InRow(i, g) => Unrecognised(i)) =>
                \A s \in Range(DriveStates) : CountValues(g, s) = {float64(0)}

\* A completed cycle with a row of unrecognised drives only, next to a row
\* with a recognised drive
C17_Witness ==
    /\ DrivesDone
    /\ \E g, h \in DriveRows :
           /\ g # h
           /\ \A i \in DOMAIN Drives : InRow(i, g) => Unrecognised(i)
           /\ \E i \in DOMAIN Drives : InRow(i, h) /\ ~Unrecognised(i)
    /\ Len(out.drives) = 2 * Len(DriveStates)

\* Drive i has no tier: its tier reference is negative
Untiered(i) == Drives[i].vsan_tier < 0

WithStatus(i) == ValidRecord(i) /\ ~Details[i].Status.nil

\* The samples of metric d with the tier and status of record i and value v
SamplesOfRecord(d, i, v) ==
    {k \in StatusSamples(d, Details[i].Tier, Details[i].Status.Status) : out.storage[k].value = v}

\* The valid records with a status that share tier and status with record i
\* and for which P holds
Alike(i, P(_)) ==
    {j \in DOMAIN Details :
        /\ WithStatus(j)
        /\ Details[j].Tier = Details[i].Tier
        /\ Details[j].Status.Status = Details[i].Status.Status
        /\ P(j)}

\* C19: every valid detail record with a status has its own redundancy sample
\* labelled with its tier and status, 1 if redundant and 0 otherwise, and its
\* own bad-drive sample whose value is its bad-drive count: per tier, status
\* and value there are as many samples as such records.
C19_RedundancyAndBadDrives ==
    (Finished("storage") /\ data.storage.details.st = "ok") =>
        \A i \in DOMAIN Details : WithStatus(i) =>
            LET redundant(j) == Details[j].Status.Redundant = Details[i].Status.Redundant
                bad(j) == Details[j].Status.BadDrives = Details[i].Status.BadDrives
                one == IF Details[i].Status.Redundant THEN float64(1) ELSE float64(0)
            IN /\ Cardinality(SamplesOfRecord(vsanRedundant, i, one))
                      = Cardinality(Alike(i, redundant))
               /\ Cardinality(SamplesOfRecord(vsanBadDrives, i, Details[i].Status.BadDrives))
                      = Cardinality(Alike(i, bad))
               /\ \A k \in StatusSamples(vsanRedundant, Details[i].Tier, Details[i].Status.Status) :
                      out.storage[k].value \in {float64(0), float64(1)}

\* A completed cycle with a redundant tier and a tier that is not redundant
\* and has a bad drive
C19_Witness ==
    /\ Finished("storage")
    /\ data.storage.details.st = "ok"
    /\ \E i, j \in DOMAIN Details :
           /\ WithStatus(i) /\ Details[i].Status.Redundant /\ Details[i].Status.BadDrives = float64(0)
           /\ WithStatus(j) /\ ~Details[j].Status.Redundant /\ Details[j].Status.BadDrives = float64(1)
    /\ \E k \in DOMAIN out.storage :
           out.storage[k].name = vsanRedundant.fqName /\ out.storage[k].value = float64(0)

\* The GetSystemName call of family f returns in this step
NameStep(f) == pc[f] = "name" /\ pc'[f] # "name"

Listed == ClusterFacts(data.cluster).auth

\* The samples of the cluster field named m sent for the cluster named n
ClusterSamples(m, n) ==
    {k \in DOMAIN out.cluster :
        /\ out.cluster[k].name = m
        /\ LabelValue(out.cluster[k], "cluster") = n}

\* The latest cluster cycle completed with every request answered
ClusterCycleOk == Finished("cluster") /\ data.cluster.records.st = "ok" /\ ~ClusterRequestFailed

\* C23: when a cluster listed in the previous scrape is no longer listed, the
\* scrape holds one vergeos_cluster_status sample for each cluster still
\* listed and none for any other cluster.
C23_RemovedClusterLeavesNoSample ==
    (ClusterCycleOk /\ prev.cluster.auth \ Listed # {}) =>
        /\ \A n \in Listed : Cardinality(ClusterSamples("vergeos_cluster_status", n)) = 1
        /\ \A k \in DOMAIN out.cluster :
               out.cluster[k].name = "vergeos_cluster_status" =>
                   LabelValue(out.cluster[k], "cluster") \in Listed

\* C24: a successful cluster cycle holds one vergeos_cluster_health sample for
\* each listed cluster, 1 for a cluster that is online and 0 otherwise.
C24_OneHealthSamplePerCluster ==
    ClusterCycleOk =>
        \A i \in DOMAIN data.cluster.clusters.val :
            LET n == data.cluster.clusters.val[i].Name
                online == data.cluster.records.val[i].detail.val.Status.OnlineNodes > 0
            IN /\ Cardinality(ClusterSamples("vergeos_cluster_health", n)) = 1
               /\ \A k \in ClusterSamples("vergeos_cluster_health", n) :
                      out.cluster[k].value = IF online THEN float64(1) ELSE float64(0)


(***************************************************************************)
(* vergeos_nodes_total: the per-cluster counts and the total               *)
(***************************************************************************)

\* The vergeos_nodes_total samples of the node scrape whose cluster label is
\* (all = TRUE) or is not (all = FALSE) the literal "all"
NodesTotalSamples(all) ==
    {k \in DOMAIN out.node :
        /\ out.node[k].name = "vergeos_nodes_total"
        /\ (LabelValue(out.node[k], "cluster") = "all") = all}

\* The sum of the values of the samples at the indexes S
RECURSIVE SumOfSamples(_)
SumOfSamples(S) ==
    IF S = {} THEN 0
    ELSE LET k == CHOOSE k \in S : TRUE IN out.node[k].value.num + SumOfSamples(S \ {k})

\* The latest node cycle got its name and both listings
NodeCycleOk == Finished("node") /\ ~Failed("node")

\* C25: in a successful node cycle there is one cluster="all" sample, its
\* value is the number of nodes the listing returned, and the values of the
\* per-cluster vergeos_nodes_total samples sum to it
C25_PerClusterSumsToAll ==
    NodeCycleOk =>
        LET listed == Len(data.node.nodes.val) IN
        /\ Cardinality(NodesTotalSamples(TRUE)) = 1
        /\ \A k \in NodesTotalSamples(TRUE) : out.node[k].value = float64(listed)
        /\ SumOfSamples(NodesTotalSamples(FALSE)) = listed


\* The samples at two different positions of the channel of family f have
\* the same metric name and the same label values
SameLabelSet(f, i, j) ==
    /\ i # j
    /\ out[f][i].name = out[f][j].name
    /\ out[f][i].labels = out[f][j].labels

\* C26: within one cycle no two samples of the same metric have identical
\* label sets, whatever the provider returned
C26_NoDuplicateLabelSets ==
    \A f \in ConstFamilies : \A i, j \in DOMAIN out[f] : ~SameLabelSet(f, i, j)


\* The system_name label values of the samples the registered collectors have
\* sent in the current scrape
ScrapeNames ==
    UNION {{LabelValue(out[f][k], "system_name") : k \in DOMAIN out[f]} : f \in registered}

\* C27: all samples of one scrape carry the same system_name, whichever
\* families sent them, also after a rename or after failed lookups
C27_OneSystemNamePerScrape == Cardinality(ScrapeNames) <= 1


\* The latest cycle of family f is past its GetSystemName call
PastName(f) == cycles[f] > 0 /\ pc[f] # "name"

\* C28: a cycle whose name lookup failed has stored nothing and has ended; a
\* cycle made no lookup only if a name is stored, so while nothing is stored
\* every cycle asks the provider again; and a cycle whose lookup and listings
\* succeeded has sent the full sample set of what it fetched, whatever failed
\* before.
C28_FailedLookupIsRetried ==
    \A f \in ConstFamilies :
        PastName(f) =>
            /\ data[f].name.st = "err" => (systemName[f] = "" /\ pc[f] = "idle")
            /\ data[f].name.st = "none" => systemName[f] # ""
            /\ data[f].name.st = "ok" => curName[f] = data[f].name.val
            /\ (Finished(f) /\ ~Failed(f)) => out[f] = Emitted(f)

\* After a cycle whose lookup failed, a cycle looked the name up again and
\* returned with the full sample set
C28_Witness ==
    /\ probe.family = "storage"
    /\ probe.data.name = ErrStr
    /\ probeOut.set
    /\ Finished("storage")
    /\ ~Failed("storage")
    /\ data.storage.name.st = "ok"
    /\ out.storage # <<>>
    /\ SameSamples(out.storage, Emitted("storage"))


\* Goroutine t is inside GetSystemName past the Lock: it has read the cache
\* and may write it
InGetSystemName(t) == threads[t].pc \in {"fetch", "bcret"}

\* Goroutine t is inside Collect past the Lock of the collector mutex
InCollect(t) == threads[t].via = "Collect" /\ threads[t].pc \in {"name", "fetch", "bcret", "body", "unlock"}

\* C21: a goroutine that has read the cache and may write it holds the
\* BaseCollector mutex; at most one provider fetch is in flight, the cache is
\* still unset while it is, and the cache is written at most once, however
\* the calls of the goroutines interleave.
C21_CacheAccessUnderMutex ==
    /\ \A t \in Threads : InGetSystemName(t) => bcMutex = t
    /\ Cardinality({t \in Threads : threads[t].pc = "fetch"}) <= 1
    /\ \A t \in Threads : threads[t].pc = "fetch" => systemName.storage = ""
    /\ writes <= 1
    /\ writes = 0 <=> systemName.storage = ""

\* Two goroutines are inside GetSystemName at the same time: one holds the
\* mutex and is fetching the name, the other waits at the Lock
C21_Witness ==
    \E t, u \in Threads :
        /\ threads[t].pc = "fetch"
        /\ bcMutex = t
        /\ threads[u].pc = "name"
        /\ threads[u].via = "GetSystemName"

\* C22: at most one goroutine is inside the body of Collect of the collector;
\* a second call waits at the Lock until the first has returned.
C22_OneCycleAtATime ==
    /\ \A t, u \in Threads : (InCollect(t) /\ InCollect(u)) => t = u
    /\ \A t \in Threads : InCollect(t) <=> mutex = t

\* A second Collect call waits while the first one is sending its samples
C22_Witness ==
    \E t, u \in Threads :
        /\ threads[t].pc = "unlock"
        /\ out.storage # <<>>
        /\ threads[u].pc = "lock"
        /\ threads[u].via = "Collect"

\* C29: every call that has started returns, and a goroutine outside a call
\* holds neither the collector mutex nor the BaseCollector mutex.
C29_EveryCallReturns ==
    \A t \in Threads :
        (threads[t].pc # "idle") ~> (threads[t].pc = "idle" /\ mutex # t /\ bcMutex # t)

\* Both mutexes are held by one goroutine while the other goroutine waits for
\* the collector mutex
C29_Witness ==
    \E t, u \in Threads :
        /\ mutex = t
        /\ bcMutex = t
        /\ threads[u].pc = "lock"

=============================================================================
